---- MODULE Spec2Model ----
(***************************************************************************)
(* Model of server/run_engine_multi.py: discovery of test_data folders,    *)
(* the MultiEngineRunner (sequential and thread-pool execution of          *)
(* engine.py on every folder), and the persisted processing report.        *)
(*                                                                         *)
(* A file name is a sequence of symbols (characters), a path a sequence    *)
(* of names.  The three indicator names are written as one symbol each,    *)
(* since no code looks inside them.                                        *)
(***************************************************************************)
EXTENDS Integers, Sequences, FiniteSets, TLC

\* ------------------------------------------------------------------ bounds
\* longest args.paths list that is explored
MaxPaths == 2
\* largest number of resolved folders that is explored
MaxUnits == 3

\* ------------------------------------------------------- program constants
\* ThreadPoolExecutor(max_workers=min(len(self.folders), 4))
MaxWorkers == 4
\* folder_name[:-9]
SuffixLen == 9

\* --------------------------------------------------------- names and paths
OriginalSuffix == <<"_", "o", "r", "i", "g", "i", "n", "a", "l">>

NmData == <<"d">>
NmA == <<"a">> \o OriginalSuffix
NmB == <<"b">>
NmC == <<"c">>
NmNotes == <<"n">>
NmEmpty == <<"e">>
NmFile == <<"f">>
NmMissing == <<"m">>
NmNested == <<"s">>
NmResults == <<"r">>
NmReport == <<"processing_results.json">>

Indicators == << <<"_subject.json">>, <<"unscaled_generic.osim">>, <<"trials/">> >>

\* pathlib drops an empty segment and a trailing slash: p / "" == p, p / "trials/" == p / "trials"
PathJoin(p, name) ==
    IF name = <<>> THEN p
    ELSE IF name = <<"trials/">> THEN Append(p, <<"trials">>)
    ELSE Append(p, name)

\* os.path.basename of a path without a trailing slash
Basename(p) == IF p = <<>> THEN <<>> ELSE p[Len(p)]

Parent(p) == SubSeq(p, 1, Len(p) - 1)

\* ------------------------------------------------- the input file system
PData == <<NmData>>
PA == <<NmData, NmA>>
PB == <<NmData, NmB>>
PC == <<NmData, NmC>>
PNested == <<NmData, NmB, NmNested>>
PEmpty == <<NmEmpty>>
PFile == <<NmFile>>
PMissing == <<NmMissing>>

\* directory entries in the order directory iteration yields them
Listing ==
    << PData, PEmpty, PFile,
       PB, PathJoin(PB, <<"_subject.json">>), PathJoin(PB, <<"unscaled_generic.osim">>),
       PathJoin(PB, <<"trials">>),
       PNested, PathJoin(PNested, <<"_subject.json">>), PathJoin(PNested, <<"trials">>),
       PC, PathJoin(PC, <<"trials">>),
       PathJoin(PData, NmNotes),
       PA, PathJoin(PA, <<"_subject.json">>), PathJoin(PA, <<"unscaled_generic.osim">>),
       PathJoin(PEmpty, NmC) >>

SrcDirs ==
    { PData, PEmpty, PA, PB, PC, PathJoin(PB, <<"trials">>), PathJoin(PC, <<"trials">>),
      PNested, PathJoin(PNested, <<"trials">>), PathJoin(PEmpty, NmC) }

Range(s) == { s[i] : i \in DOMAIN s }

PathExists(p) == p \in Range(Listing)
IsDir(p) == PathExists(p) /\ p \in SrcDirs
IsFile(p) == PathExists(p) /\ p \notin SrcDirs

\* directory.iterdir()
IterDir(p) == SelectSeq(Listing, LAMBDA q : Len(q) = Len(p) + 1 /\ Parent(q) = p)

\* the paths the command line may name
InputPaths == { PData, PA, PB, PEmpty, PFile, PMissing }

OutputDir == <<NmResults>>

\* ------------------------------------------------------------- discovery
\* lines 339-342 on a file system whose existing paths are entries: found_indicators
\* after the first k indicators
RECURSIVE CountFoundIn(_, _, _)
CountFoundIn(entries, folder_path, k) ==
    IF k = 0 THEN 0
    ELSE CountFoundIn(entries, folder_path, k - 1)
         + (IF PathJoin(folder_path, Indicators[k]) \in entries THEN 1 ELSE 0)

CountFound(folder_path, k) == CountFoundIn(Range(Listing), folder_path, k)

\* a slip: all the indicators are required
EnoughIndicators_All(found_indicators) == found_indicators >= Len(Indicators)

\* line 345: found_indicators >= 2
EnoughIndicators(found_indicators) == found_indicators >= 2

is_valid_test_data_folder(folder_path) ==
    EnoughIndicators(CountFound(folder_path, Len(Indicators)))

\* a slip: every subdirectory is kept, valid or not
find_test_data_folders_EverySubdirectory(directory_path) ==
    IF ~PathExists(directory_path) THEN <<>>
    ELSE SelectSeq(IterDir(directory_path), LAMBDA item : IsDir(item))

find_test_data_folders(directory_path) ==
    IF ~PathExists(directory_path) THEN <<>>
    ELSE SelectSeq(IterDir(directory_path),
                   LAMBDA item : IsDir(item) /\ is_valid_test_data_folder(item))

\* one iteration of the loop over args.paths in main: the folders this path adds
ResolvePath(path) ==
    IF IsFile(path) THEN <<>>
    ELSE IF IsDir(path)
         THEN IF is_valid_test_data_folder(path) THEN <<path>>
              ELSE find_test_data_folders(path)
         ELSE <<>>

\* a slip: no input path is ever warned about
WarnsFor_Silent(path) == FALSE

\* lines 416 and 418: whether main prints a WARNING for this path
WarnsFor(path) ==
    IF IsFile(path) THEN FALSE
    ELSE IF IsDir(path)
         THEN ~is_valid_test_data_folder(path) /\ find_test_data_folders(path) = <<>>
         ELSE TRUE

\* the paths of the WARNING lines main prints, in order
RECURSIVE Warnings(_)
Warnings(ps) ==
    IF ps = <<>> THEN <<>>
    ELSE (IF WarnsFor(Head(ps)) THEN <<Head(ps)>> ELSE <<>>) \o Warnings(Tail(ps))

RECURSIVE ResolveInputs(_)
ResolveInputs(ps) ==
    IF ps = <<>> THEN <<>>
    ELSE ResolvePath(Head(ps)) \o ResolveInputs(Tail(ps))

\* ------------------------------------------------------------------ state
VARIABLES
    args,        \* the parsed command line: paths and the option flags
    pc,          \* "main" before main has run, "processing" inside run(), "exited"
    folders,     \* args.folders / self.folders, the resolved folders
    status,      \* per folder: where its process_folder call stands
    fate,        \* per folder: whether its execution succeeded or failed, once it ended
    results,     \* self.results
    outfs,       \* the entries that exist under the output directory
    invoked,     \* the subprocess.run calls made so far
    report,      \* the content of processing_results.json, or NoReport
    exitStatus,  \* the exit status of the process, NotExited while it runs
    uncaught,    \* TRUE when the process ended on an uncaught exception
    warned,      \* the paths main has printed a WARNING line for
    probe,       \* a folder handed to is_valid_test_data_folder on its own, or NoProbe
    verdict      \* what that call returned, "none" before it

vars == << args, pc, folders, status, fate, results, outfs, invoked, report, exitStatus,
           uncaught, warned, probe, verdict >>

NoReport == [written |-> FALSE]
NoProbe == [kind |-> "none", names |-> {}]
NotExited == 0 - 1
\* falling off the end of main
ExitSuccess == 0
\* sys.exit(1), and the status of an uncaught exception
ExitFailure == 1

Units == DOMAIN folders

SeqsUpTo(S, n) == UNION { [1..k -> S] : k \in 0..n }

\* an earlier run may have left a staged copy, already processed, of the folder PA
StaleCopy ==
    { [path |-> OutputDir, kind |-> "dir", src |-> <<>>],
      [path |-> PathJoin(OutputDir, NmA), kind |-> "dir", src |-> <<>>],
      [path |-> PathJoin(PathJoin(OutputDir, NmA), <<"a">>), kind |-> "used", src |-> PA] }

\* ----------------------------------------------------- the output file system
IsPrefix(p, q) == Len(p) <= Len(q) /\ SubSeq(q, 1, Len(p)) = p

OutExists(fs, p) == \E e \in fs : e.path = p

RECURSIVE Prefixes(_)
Prefixes(p) == IF p = <<>> THEN {} ELSE {p} \cup Prefixes(Parent(p))

\* Path.mkdir(parents=True, exist_ok=True)
MkdirParents(fs, p) ==
    fs \cup { [path |-> q, kind |-> "dir", src |-> <<>>] : q \in { r \in Prefixes(p) : ~OutExists(fs, r) } }

\* shutil.rmtree
RmTree(fs, p) == { e \in fs : ~IsPrefix(p, e.path) }

\* shutil.copytree(src, dst): dst holds a pristine copy of src
CopyTree(fs, src, dst) == fs \cup { [path |-> dst, kind |-> "copy", src |-> src] }

\* shutil.copytree that raised part-way
CopyTreePartial(fs, src, dst) == fs \cup { [path |-> dst, kind |-> "partial", src |-> src] }

\* the engine has written its artifacts into a staged copy
MarkUsed(fs, p) ==
    { IF e.path = p /\ e.kind = "copy" THEN [e EXCEPT !.kind = "used"] ELSE e : e \in fs }

\* ------------------------------------------------------------ process_folder
EndsWith(name, suffix) ==
    /\ Len(name) >= Len(suffix)
    /\ SubSeq(name, Len(name) - Len(suffix) + 1, Len(name)) = suffix

folder_name(folder_path) == Basename(folder_path)

output_path(folder_path) == PathJoin(OutputDir, folder_name(folder_path))

IsOriginal(folder_path) == EndsWith(folder_name(folder_path), OriginalSuffix)

\* folder_name[:-9]
clean_name(folder_path) ==
    SubSeq(folder_name(folder_path), 1, Len(folder_name(folder_path)) - SuffixLen)

\* a slip: the suffix is not stripped (the value of line 101 is kept)
working_folder_KeepsSuffix(folder_path) ==
    IF IsOriginal(folder_path)
    THEN PathJoin(output_path(folder_path), folder_name(folder_path))
    ELSE folder_path

working_folder(folder_path) ==
    IF IsOriginal(folder_path)
    THEN PathJoin(output_path(folder_path), clean_name(folder_path))
    ELSE folder_path

\* whether the staging copy is made (lines 102, 106)
CopiesFolder(folder_path, dry) == IsOriginal(folder_path) /\ ~dry

\* the calls of the staging part that can raise, in the state fs
StagingFaults(fs, folder_path, dry) ==
    {"none", "mkdir"}
    \cup (IF CopiesFolder(folder_path, dry) THEN {"copytree"} ELSE {})
    \cup (IF CopiesFolder(folder_path, dry) /\ OutExists(fs, working_folder(folder_path))
          THEN {"rmtree"} ELSE {})

\* lines 92-112: the output file system after the staging part, when the call
\* named by fault raises ("none": no call raises)
Staged(fs, folder_path, dry, fault) ==
    LET made == MkdirParents(fs, output_path(folder_path))
        wf == working_folder(folder_path)
        removed == IF OutExists(made, wf) THEN RmTree(made, wf) ELSE made
    IN  IF fault = "mkdir" THEN fs
        ELSE IF ~CopiesFolder(folder_path, dry) THEN made
        ELSE IF fault = "rmtree" THEN made
        ELSE IF fault = "copytree" THEN CopyTreePartial(removed, folder_path, wf)
        ELSE CopyTree(removed, folder_path, wf)

\* lines 128-141: the command handed to subprocess.run
Command(i, folder_path, docker) ==
    [unit |-> i,
     backend |-> IF docker THEN "docker" ELSE "local",
     path |-> working_folder(folder_path)]

\* what subprocess.run(check=True) can do: return, raise CalledProcessError, raise another fault
RunOutcomes == {"exit0", "nonzero", "raise"}

\* lines 143-165: the success flag process_folder returns
ReturnedSuccess(outcome) == outcome = "exit0"

\* ------------------------------------------------------------- the report
CountSuccess(res) == Cardinality({ k \in DOMAIN res : res[k].success })

\* a slip: every outcome is counted as failed
CountFailed_EveryOutcome(res) == Len(res)

CountFailed(res) == Cardinality({ k \in DOMAIN res : ~res[k].success })

\* save_results: the summary written to processing_results.json
Summary(res) ==
    [written |-> TRUE,
     total_folders |-> Len(folders),
     successful |-> CountSuccess(res),
     failed |-> CountFailed(res),
     configuration |-> [parallel |-> args.parallel, docker |-> args.docker,
                        dry_run |-> args.dry_run,
                        continue_on_error |-> args.continue_on_error],
     results |-> res]

ReportPath == PathJoin(OutputDir, NmReport)

WriteReport(fs) == { e \in fs : e.path # ReportPath }
                   \cup { [path |-> ReportPath, kind |-> "file", src |-> <<>>] }

\* a slip: a failed folder makes the exit status non-zero
SaveAndExit_FailureStatus(res, fs) ==
    /\ report' = Summary(res)
    /\ outfs' = WriteReport(fs)
    /\ pc' = "exited"
    /\ exitStatus' = IF CountFailed(res) = 0 THEN ExitSuccess ELSE ExitFailure
    /\ uncaught' = FALSE

\* lines 304-311 and the return from main: the report is saved and the process ends
SaveAndExit(res, fs) ==
    /\ report' = Summary(res)
    /\ outfs' = WriteReport(fs)
    /\ pc' = "exited"
    /\ exitStatus' = ExitSuccess
    /\ uncaught' = FALSE

\* a slip: sys.exit() without the status
SysExit_StatusZero(fs) ==
    /\ pc' = "exited"
    /\ exitStatus' = ExitSuccess
    /\ uncaught' = FALSE
    /\ outfs' = fs
    /\ UNCHANGED report

\* sys.exit(1)
SysExit(fs) ==
    /\ pc' = "exited"
    /\ exitStatus' = ExitFailure
    /\ uncaught' = FALSE
    /\ outfs' = fs
    /\ UNCHANGED report

\* an exception nothing catches ends the interpreter with a traceback
Crash(fs) ==
    /\ pc' = "exited"
    /\ exitStatus' = ExitFailure
    /\ uncaught' = TRUE
    /\ outfs' = fs
    /\ UNCHANGED report

\* ------------------------------------------------------------------ Init
Init ==
    /\ args \in [paths : SeqsUpTo(InputPaths, MaxPaths) \ {<<>>},
                 parallel : BOOLEAN, docker : BOOLEAN,
                 dry_run : BOOLEAN, continue_on_error : BOOLEAN]
    /\ Len(ResolveInputs(args.paths)) <= MaxUnits
    /\ pc = "main"
    /\ folders = <<>>
    /\ status = <<>>
    /\ fate = <<>>
    /\ results = <<>>
    /\ outfs \in { {}, StaleCopy }
    /\ invoked = {}
    /\ report = NoReport
    /\ exitStatus = NotExited
    /\ uncaught = FALSE
    /\ warned = <<>>
    /\ probe = NoProbe
    /\ verdict = "none"

\* ------------------------------------------------------------------ main
\* validate_folders
validate_folders(fl) == \A k \in DOMAIN fl : PathExists(fl[k]) /\ IsDir(fl[k])

\* a slip: the empty list is not rejected
NoFolders_NeverFatal(all_folders) == FALSE

\* line 420: if not all_folders
NoFolders(all_folders) == all_folders = <<>>

\* main up to the start of the processing loop: discovery, the runner's
\* construction (which creates the output directory) and validate_folders
Main ==
    /\ pc = "main"
    /\ LET all_folders == ResolveInputs(args.paths)
       IN  IF NoFolders(all_folders) \/ ~validate_folders(all_folders)
           THEN /\ SysExit(IF NoFolders(all_folders) THEN outfs
                           ELSE MkdirParents(outfs, OutputDir))
                /\ UNCHANGED << folders, status, fate >>
           ELSE /\ folders' = all_folders
                /\ status' = [k \in DOMAIN all_folders |-> "queued"]
                /\ fate' = [k \in DOMAIN all_folders |-> "pending"]
                /\ outfs' = MkdirParents(outfs, OutputDir)
                /\ pc' = "processing"
                /\ UNCHANGED << report, exitStatus, uncaught >>
    /\ warned' = Warnings(args.paths)
    /\ UNCHANGED << args, results, invoked, probe, verdict >>

\* -------------------------------------------------- sequential processing
\* lines 215-220
ResultOf(i, success) ==
    [unit |-> i, folder |-> folder_name(folders[i]), success |-> success,
     error |-> "absent"]

\* a slip: the failure never stops the run
StopsOnFailure_Never(success) == FALSE

\* line 226: the failure stops the run
StopsOnFailure(success) == ~success /\ ~args.continue_on_error

\* lines 215-232: the outcome of folder i is appended; the run stops, goes on
\* to the next folder, or leaves the loop for the report
SeqAppend(i, success, fs) ==
    /\ results' = Append(results, ResultOf(i, success))
    /\ status' = [status EXCEPT ![i] = "collected"]
    /\ IF StopsOnFailure(success) THEN SysExit(fs)
       ELSE IF i = Len(folders) THEN SaveAndExit(Append(results, ResultOf(i, success)), fs)
       ELSE /\ outfs' = fs
            /\ UNCHANGED << pc, report, exitStatus, uncaught >>

\* a slip: any folder not yet processed may be taken
NextInLoop_AnyFolder(i) == TRUE

\* line 212: folder i is the one the for loop takes next
NextInLoop(i) == i = Len(results) + 1

\* the loop reaches folder i: process_folder runs up to the subprocess.run call
SeqBegin(i) ==
    /\ pc = "processing"
    /\ ~args.parallel
    /\ NextInLoop(i)
    /\ status[i] = "queued"
    /\ \E fault \in StagingFaults(outfs, folders[i], args.dry_run) :
         LET fs == Staged(outfs, folders[i], args.dry_run, fault)
         IN  IF fault # "none"
             THEN /\ Crash(fs)
                  /\ status' = [status EXCEPT ![i] = "raised"]
                  /\ fate' = [fate EXCEPT ![i] = "failed"]
                  /\ UNCHANGED << results, invoked >>
             ELSE IF args.dry_run
             THEN /\ SeqAppend(i, TRUE, fs)
                  /\ fate' = [fate EXCEPT ![i] = "succeeded"]
                  /\ UNCHANGED invoked
             ELSE /\ status' = [status EXCEPT ![i] = "running"]
                  /\ UNCHANGED fate
                  /\ invoked' = invoked \cup { Command(i, folders[i], args.docker) }
                  /\ outfs' = fs
                  /\ UNCHANGED << results, pc, report, exitStatus, uncaught >>
    /\ UNCHANGED << warned, probe, verdict, args, folders >>

\* subprocess.run ends for folder i and process_folder returns
SeqEnd(i) ==
    /\ pc = "processing"
    /\ ~args.parallel
    /\ status[i] = "running"
    /\ \E outcome \in RunOutcomes :
         /\ SeqAppend(i, ReturnedSuccess(outcome),
                      IF outcome = "raise" THEN outfs
                      ELSE MarkUsed(outfs, working_folder(folders[i])))
         /\ fate' = [fate EXCEPT ![i] = IF outcome = "exit0" THEN "succeeded" ELSE "failed"]
    /\ UNCHANGED << warned, probe, verdict, args, folders, invoked >>

\* ---------------------------------------------------- parallel processing
\* a slip: one worker per folder, whatever their number
PoolSize_OnePerFolder == Len(folders)

\* line 171: max_workers=min(len(self.folders), 4)
PoolSize == IF Len(folders) < MaxWorkers THEN Len(folders) ELSE MaxWorkers

Running == { k \in Units : status[k] = "running" }

\* a pool thread takes the oldest submitted task and runs process_folder up to
\* the subprocess.run call
ParBegin(i) ==
    /\ pc = "processing"
    /\ args.parallel
    /\ status[i] = "queued"
    /\ \A k \in Units : k < i => status[k] # "queued"
    /\ Cardinality(Running) < PoolSize
    /\ \E fault \in StagingFaults(outfs, folders[i], args.dry_run) :
         /\ outfs' = Staged(outfs, folders[i], args.dry_run, fault)
         /\ IF fault # "none"
            THEN /\ status' = [status EXCEPT ![i] = "raised"]
                 /\ fate' = [fate EXCEPT ![i] = "failed"]
                 /\ UNCHANGED invoked
            ELSE IF args.dry_run
            THEN /\ status' = [status EXCEPT ![i] = "returned_true"]
                 /\ fate' = [fate EXCEPT ![i] = "succeeded"]
                 /\ UNCHANGED invoked
            ELSE /\ status' = [status EXCEPT ![i] = "running"]
                 /\ UNCHANGED fate
                 /\ invoked' = invoked \cup { Command(i, folders[i], args.docker) }
    /\ UNCHANGED << warned, probe, verdict, args, pc, folders, results, report, exitStatus, uncaught >>

\* subprocess.run ends for folder i and its future completes
ParEnd(i) ==
    /\ pc = "processing"
    /\ args.parallel
    /\ status[i] = "running"
    /\ \E outcome \in RunOutcomes :
         /\ status' = [status EXCEPT ![i] =
                IF ReturnedSuccess(outcome) THEN "returned_true" ELSE "returned_false"]
         /\ outfs' = IF outcome = "raise" THEN outfs
                     ELSE MarkUsed(outfs, working_folder(folders[i]))
         /\ fate' = [fate EXCEPT ![i] = IF outcome = "exit0" THEN "succeeded" ELSE "failed"]
    /\ UNCHANGED << warned, probe, verdict, args, pc, folders, results, invoked, report, exitStatus, uncaught >>

\* a slip: a future that ended with an exception is never yielded
Completed_OnlyReturned == { k \in Units : status[k] \in {"returned_true", "returned_false"} }

\* line 179: the futures as_completed can yield
Completed == { k \in Units : status[k] \in {"returned_true", "returned_false", "raised"} }

\* lines 181-203: the entry appended for the completed future of folder i
CollectedResult(i) ==
    IF status[i] = "raised"
    THEN [unit |-> i, folder |-> folders[i], success |-> FALSE, error |-> "str(e)"]
    ELSE ResultOf(i, status[i] = "returned_true")

\* a slip: the except branch logs the exception and records nothing
Collected_DropsRaised(res, i) ==
    IF status[i] = "raised" THEN res ELSE Append(res, CollectedResult(i))

\* lines 182-203: self.results after the completed future of folder i is handled
Collected(res, i) == Append(res, CollectedResult(i))

\* a slip: the collecting loop is left after the first completed future
LastCompleted_AfterFirst(i) == TRUE

\* line 179: as_completed has no further future to yield after that of folder i
LastCompleted(i) == \A k \in Units \ {i} : status[k] = "collected"

\* as_completed yields the future of folder i; after the last one the pool is
\* shut down and run() goes on to the report
Collect(i) ==
    /\ pc = "processing"
    /\ args.parallel
    /\ i \in Completed
    /\ results' = Collected(results, i)
    /\ status' = [status EXCEPT ![i] = "collected"]
    /\ IF LastCompleted(i)
       THEN SaveAndExit(Collected(results, i), outfs)
       ELSE UNCHANGED << pc, outfs, report, exitStatus, uncaught >>
    /\ UNCHANGED << warned, probe, verdict, args, folders, fate, invoked >>

\* ------------------------------------- a run with more folders than workers
\* d holds b and a_original, d/b/s is a folder of its own: five folders, two of
\* them resolved twice
PoolPaths == <<PData, PNested, PData>>

InitPool ==
    /\ args \in [paths : {PoolPaths}, parallel : BOOLEAN, docker : {FALSE},
                 dry_run : {FALSE}, continue_on_error : {FALSE}]
    /\ pc = "main"
    /\ folders = <<>>
    /\ status = <<>>
    /\ fate = <<>>
    /\ results = <<>>
    /\ outfs = {}
    /\ invoked = {}
    /\ report = NoReport
    /\ exitStatus = NotExited
    /\ uncaught = FALSE
    /\ warned = <<>>
    /\ probe = NoProbe
    /\ verdict = "none"

\* ------------------------------------------- the validator on its own
\* the path handed to is_valid_test_data_folder and the names that may lie in it
ProbePath == << <<"p">> >>

ProbeNames ==
    { <<"_subject.json">>, <<"unscaled_generic.osim">>, <<"trials">>,
      <<"subject.json">>, <<"generic.osim">>, <<"results">> }

\* what exists on disk for a probe: a directory with its entries, a regular
\* file, or nothing
ProbeEntries(pr) ==
    IF pr.kind = "dir" THEN {ProbePath} \cup { Append(ProbePath, n) : n \in pr.names }
    ELSE IF pr.kind = "file" THEN {ProbePath}
    ELSE {}

Probes ==
    { pr \in [kind : {"dir", "file", "missing"}, names : SUBSET ProbeNames] :
        pr.kind # "dir" => pr.names = {} }

InitValidator ==
    /\ probe \in Probes
    /\ verdict = "none"
    /\ pc = "idle"
    /\ args = [paths |-> <<ProbePath>>, parallel |-> FALSE, continue_on_error |-> FALSE,
               dry_run |-> FALSE, docker |-> FALSE]
    /\ folders = <<>>
    /\ status = <<>>
    /\ fate = <<>>
    /\ results = <<>>
    /\ outfs = {}
    /\ invoked = {}
    /\ report = NoReport
    /\ exitStatus = NotExited
    /\ uncaught = FALSE
    /\ warned = <<>>

\* one call of is_valid_test_data_folder(ProbePath)
Validate ==
    /\ pc = "idle"
    /\ verdict = "none"
    /\ verdict' = IF EnoughIndicators(CountFoundIn(ProbeEntries(probe), ProbePath,
                                                   Len(Indicators)))
                  THEN "true" ELSE "false"
    /\ UNCHANGED << args, pc, folders, status, fate, results, outfs, invoked, report,
                    exitStatus, uncaught, warned, probe >>

SpecValidator == InitValidator /\ [][Validate]_vars

\* ------------------------------------------------------------------ Spec
Next ==
    \/ Main
    \/ \E i \in Units : SeqBegin(i)
    \/ \E i \in Units : SeqEnd(i)
    \/ \E i \in Units : ParBegin(i)
    \/ \E i \in Units : ParEnd(i)
    \/ \E i \in Units : Collect(i)

Spec == Init /\ [][Next]_vars

SpecPool == InitPool /\ [][Next]_vars

\* main runs on; every pool worker that can take a task does; every command
\* that is executing ends; the collecting loop handles each completed future
PoolFairness ==
    /\ WF_vars(Main)
    /\ \A i \in DOMAIN ResolveInputs(PoolPaths) :
          WF_vars(ParBegin(i)) /\ WF_vars(ParEnd(i)) /\ WF_vars(Collect(i))

SpecPoolFair == InitPool /\ [][Next]_vars /\ PoolFairness

\* ------------------------------------------------------- claim vocabulary
Exited == pc = "exited"

\* the entries of res that are the outcome of folder u
OutcomesOf(res, u) == { k \in DOMAIN res : res[k].unit = u }

OneOutcomePerUnit(res) ==
    /\ Len(res) = Len(folders)
    /\ \A u \in Units : Cardinality(OutcomesOf(res, u)) = 1

\* folder u was executed and its execution succeeded, resp. failed
UnitSucceeded(u) == fate[u] = "succeeded"
UnitFailed(u) == fate[u] = "failed"

\* the sequential loop met a failure outcome with fail-fast in force
FailFastTriggered ==
    /\ ~args.parallel
    /\ ~args.continue_on_error
    /\ \E k \in DOMAIN results : ~results[k].success

\* the sequential run ended before its loop was through
SequentialRunCutShort == ~args.parallel /\ exitStatus = ExitFailure

C2_ParallelReportCountsFailures ==
    (Exited /\ args.parallel /\ folders # <<>>) =>
        /\ report.written
        /\ OneOutcomePerUnit(report.results)
        /\ report.failed = Cardinality({ u \in Units : UnitFailed(u) })
        /\ \A u \in Units : \A k \in OutcomesOf(report.results, u) :
               report.results[k].success = UnitSucceeded(u)

\* three folders, exactly one failed, collected out of submission order
C2_Witness ==
    /\ Exited /\ args.parallel /\ Len(folders) = 3
    /\ Cardinality({ u \in Units : UnitFailed(u) }) = 1
    /\ report.written /\ report.failed = 1
    /\ report.results[1].unit = 3

\* ---------------------------------------------------------------- C3
\* C3: in sequential mode without continue_on_error, once an outcome is a
\* failure the process has exited with a non-zero status, the failure is the last
\* entry of self.results, the entries are the outcomes of the folders up to it in
\* resolved order, and no later folder was started.
C3_FailFastStopsAtFirstFailure ==
    FailFastTriggered =>
        LET n == Len(results)
        IN  /\ Exited
            /\ exitStatus # ExitSuccess
            /\ ~results[n].success
            /\ \A k \in 1..n : results[k].unit = k
            /\ \A k \in 1..(n - 1) : results[k].success
            /\ \A u \in Units : u > n =>
                   /\ status[u] = "queued"
                   /\ fate[u] = "pending"
                   /\ \A c \in invoked : c.unit # u

\* the second of three folders failed: two outcomes, the third never started
C3_Witness ==
    /\ FailFastTriggered /\ Exited
    /\ Len(folders) = 3 /\ Len(results) = 2
    /\ results[1].success /\ ~results[2].success
    /\ status[3] = "queued"

\* ---------------------------------------------------------------- C4
\* C4: when a sequential run with continue_on_error has ended, every resolved
\* folder was executed in turn, each outcome records its folder's own success or
\* failure, and the report's successful and failed counts are the numbers of
\* succeeding and failing folders.
C4_ContinueOnErrorRunsEveryUnit ==
    (Exited /\ ~args.parallel /\ args.continue_on_error /\ folders # <<>>) =>
        /\ \A u \in Units : UnitSucceeded(u) \/ UnitFailed(u)
        /\ Len(results) = Len(folders)
        /\ \A u \in Units : results[u].unit = u /\ results[u].success = UnitSucceeded(u)
        /\ report.written
        /\ report.successful = Cardinality({ u \in Units : UnitSucceeded(u) })
        /\ report.failed = Cardinality({ u \in Units : UnitFailed(u) })

\* ---------------------------------------------------------------- C5
\* C5: no process_folder call ever raises, so no exception of a folder's
\* execution ends the process.
C5_ProcessFolderNeverRaises ==
    /\ \A u \in Units : status[u] # "raised"
    /\ ~uncaught

\* ---------------------------------------------------------------- C6
\* C6: with dry_run set no step of the run invokes a command, creates or
\* removes anything under the output directory, or writes the report.
C6_DryRunChangesNothing ==
    [][args.dry_run => (invoked' = invoked /\ outfs' = outfs /\ report' = report)]_vars

\* ---------------------------------------------------------------- C7
\* C7: whenever a command is invoked for a folder named X_original, its path is
\* <output_dir>/X_original/X, never the folder itself; and, unless another pool
\* thread is working on the same folder, at that moment this path holds a
\* pristine copy of the folder (a previous copy was replaced).
C7_OriginalRunsOnFreshStagedCopy ==
    [][\A c \in invoked' \ invoked :
          LET f == folders[c.unit]
              alone == ~args.parallel \/ \A u \in Units \ {c.unit} : folders[u] # f
          IN  EndsWith(Basename(f), OriginalSuffix) =>
                /\ c.path # f
                /\ Parent(c.path) = Append(OutputDir, Basename(f))
                /\ Basename(c.path) \o OriginalSuffix = Basename(f)
                /\ alone => /\ [path |-> c.path, kind |-> "copy", src |-> f] \in outfs'
                            /\ \A e \in outfs' : e.path = c.path => e.kind = "copy"
      ]_vars

\* the same X_original folder is run a second time in a sequential run, on a
\* copy that replaced the one the first run had used
C7_Witness ==
    /\ ~args.parallel
    /\ \E c1, c2 \in invoked :
         /\ c1.unit < c2.unit /\ c1.path = c2.path
         /\ folders[c2.unit] = PA
         /\ UnitSucceeded(c1.unit)
         /\ status[c2.unit] = "running"
         /\ [path |-> c2.path, kind |-> "copy", src |-> PA] \in outfs

\* ---------------------------------------------------------------- C8
\* C8: when the process has exited, its status is zero if every resolved folder
\* succeeded, and non-zero if fail-fast was triggered or no folder was resolved.
C8_ExitStatus ==
    Exited =>
        /\ (folders # <<>> /\ \A u \in Units : UnitSucceeded(u)) => exitStatus = ExitSuccess
        /\ FailFastTriggered => exitStatus # ExitSuccess
        /\ ResolveInputs(args.paths) = <<>> => exitStatus # ExitSuccess

\* a real (not dry) run of two or more folders that all succeeded
C8_Witness ==
    /\ Exited /\ Len(folders) >= 2
    /\ ~args.dry_run
    /\ \A u \in Units : UnitSucceeded(u)
    /\ exitStatus = ExitSuccess

\* ---------------------------------------------------------------- C9
\* C9: when a run whose execution started has exited, the report was written
\* unless the run was a sequential fail-fast abort, and in that case it was not.
C9_ReportUnlessFailFast ==
    (Exited /\ folders # <<>>) => (report.written <=> ~FailFastTriggered)

\* ---------------------------------------------------------------- C10
\* C10: when no folder is resolved, main exits with status 1 in its first step
\* and leaves everything else as it was: nothing is executed, the output
\* directory is not created, no report is written.
C10_NoFoldersIsFatal ==
    /\ [][(pc = "main" /\ ResolveInputs(args.paths) = <<>>) =>
            /\ pc' = "exited"
            /\ exitStatus' = ExitFailure
            /\ outfs' = outfs /\ invoked' = invoked /\ report' = report
            /\ results' = results /\ status' = status /\ folders' = <<>>
         ]_vars
    /\ []((Exited /\ ResolveInputs(args.paths) = <<>>) =>
            (invoked = {} /\ report = NoReport /\ results = <<>> /\ exitStatus # ExitSuccess))

\* the command line named an empty directory and a missing path
C10_Witness ==
    /\ Exited /\ args.paths = <<PEmpty, PMissing>>
    /\ folders = <<>> /\ exitStatus = ExitFailure
    /\ outfs = {}

\* ---------------------------------------------------------------- C11
\* the directories that hold at least 2 of the 3 indicators
C11_IndicatorNames == { <<"_subject.json">>, <<"unscaled_generic.osim">>, <<"trials">> }

C11_ValidDirs ==
    { d \in SrcDirs :
        Cardinality({ n \in C11_IndicatorNames : Append(d, n) \in Range(Listing) }) >= 2 }

\* what one input path is to contribute, as a set
C11_UnitsOf(p) ==
    IF p \in C11_ValidDirs THEN {p}
    ELSE IF p \in SrcDirs
         THEN { d \in C11_ValidDirs : Len(d) = Len(p) + 1 /\ IsPrefix(p, d) }
         ELSE {}

\* how many folders the first k input paths are to contribute
RECURSIVE C11_Offset(_)
C11_Offset(k) ==
    IF k = 0 THEN 0 ELSE C11_Offset(k - 1) + Cardinality(C11_UnitsOf(args.paths[k]))

\* C11: once main has resolved the inputs, the folder list is made of one
\* segment per input path, in the order of the input paths; the segment of a
\* valid folder is that folder alone, the segment of any other directory holds
\* exactly its immediate child directories that are valid, each once.
C11_DiscoveryResolvesInOrder ==
    pc # "main" =>
        /\ Len(folders) = C11_Offset(Len(args.paths))
        /\ \A k \in DOMAIN args.paths :
               { folders[i] : i \in (C11_Offset(k - 1) + 1)..C11_Offset(k) }
                   = C11_UnitsOf(args.paths[k])

\* a valid folder that has a valid child, followed by a parent with three
\* subdirectories of which two are valid
C11_Witness ==
    /\ pc # "main"
    /\ args.paths = <<PB, PData>>
    /\ PNested \in C11_ValidDirs /\ PC \in SrcDirs \ C11_ValidDirs
    /\ folders = <<PB, PB, PA>>

\* ---------------------------------------------------------------- C12
\* a bad input path: one that is to contribute no unit
C12_Bad(p) == C11_UnitsOf(p) = {}

C12_RegularFile(p) == p \in Range(Listing) \ SrcDirs

\* the bad path itself and its children are not among the folders
C12_ContributesNothing(p) ==
    \A i \in DOMAIN folders : folders[i] # p /\ Parent(folders[i]) # p

\* the units of the good input paths are all resolved, and nothing else is
C12_RemainderResolved ==
    /\ \A k \in DOMAIN args.paths : C11_UnitsOf(args.paths[k]) \subseteq Range(folders)
    /\ Len(folders) = C11_Offset(Len(args.paths))

\* C12 as stated: after discovery every bad input path (missing, a regular
\* file, a directory without a valid child) has a warning, contributes no unit,
\* and the units of the other input paths are resolved.
C12_EveryBadPathWarned ==
    pc # "main" =>
        /\ \A k \in DOMAIN args.paths :
               C12_Bad(args.paths[k]) =>
                   /\ args.paths[k] \in Range(warned)
                   /\ C12_ContributesNothing(args.paths[k])
        /\ C12_RemainderResolved

\* C12 amended: after discovery a missing path and a directory without a valid
\* child have a warning, a regular file is skipped without one, only bad paths
\* are warned about, each bad path contributes no unit, and the units of the
\* other input paths are resolved.
C12_BadPathsSkippedFilesSilently ==
    pc # "main" =>
        /\ \A k \in DOMAIN args.paths :
               C12_Bad(args.paths[k]) =>
                   /\ args.paths[k] \in Range(warned) <=> ~C12_RegularFile(args.paths[k])
                   /\ C12_ContributesNothing(args.paths[k])
        /\ \A j \in DOMAIN warned : C12_Bad(warned[j])
        /\ C12_RemainderResolved

\* a missing path is warned about and the folder after it is still resolved
C12_Witness ==
    /\ pc # "main"
    /\ args.paths = <<PMissing, PA>>
    /\ warned = <<PMissing>>
    /\ folders = <<PA>>

\* ---------------------------------------------------------------- C13
C13_IndicatorsPresent == Cardinality(probe.names \cap C11_IndicatorNames)

\* C13: is_valid_test_data_folder answers true exactly when at least 2 of the
\* 3 indicators exist under the path, whichever they are and whatever else is
\* there; for a path that does not exist, or is a regular file, it answers false.
C13_ValidIffTwoOfThree ==
    verdict # "none" =>
        /\ verdict \in {"true", "false"}
        /\ verdict = "true" <=> (probe.kind = "dir" /\ C13_IndicatorsPresent >= 2)
        /\ probe.kind \in {"missing", "file"} => verdict = "false"

\* a directory with exactly two indicators next to other entries is accepted
C13_Witness ==
    /\ verdict = "true"
    /\ probe.kind = "dir"
    /\ C13_IndicatorsPresent = 2
    /\ probe.names \ C11_IndicatorNames # {}

\* ---------------------------------------------------------------- C14
C14_Successes == Len(SelectSeq(results, LAMBDA r : r.success))

C14_Failures == Len(SelectSeq(results, LAMBDA r : ~r.success))

\* C14: whenever the report has been written, its total_folders is the number
\* of outcomes in the results list, its successful and failed are the numbers
\* of outcomes with success true and false, and the two add up to total_folders.
C14_ReportCountsAgreeWithOutcomes ==
    report.written =>
        /\ report.total_folders = Len(results)
        /\ report.successful = C14_Successes
        /\ report.failed = C14_Failures
        /\ report.successful + report.failed = report.total_folders
        /\ report.results = results

\* a written report over a success, a failed command and a raised exception
C14_Witness ==
    /\ report.written
    /\ report.successful >= 1
    /\ \E k \in DOMAIN results : ~results[k].success /\ results[k].error = "absent"
    /\ \E k \in DOMAIN results : ~results[k].success /\ results[k].error # "absent"

\* ---------------------------------------------------------------- C15
C15_Limit == IF Len(folders) < 4 THEN Len(folders) ELSE 4

\* C15: in parallel mode at most min(number of folders, 4) external commands
\* are executing at any moment; in sequential mode at most one.
C15_AtMostPoolSizeCommandsAtOnce ==
    /\ args.parallel => Cardinality(Running) <= C15_Limit
    /\ ~args.parallel => Cardinality(Running) <= 1

\* five folders: four commands executing and the fifth folder waiting
C15_Witness ==
    /\ args.parallel
    /\ Len(folders) = 5
    /\ Cardinality(Running) = 4
    /\ \E k \in Units : status[k] = "queued"

\* ---------------------------------------------------------------- C16
\* C16: in parallel mode any two folders whose commands are executing at the
\* same time have different per-folder output directories and different
\* working folders (the staged copy of an _original folder).
C16_ConcurrentUnitsWriteDistinctTargets ==
    args.parallel =>
        \A i \in Running : \A j \in Running \ {i} :
            /\ output_path(folders[i]) # output_path(folders[j])
            /\ working_folder(folders[i]) # working_folder(folders[j])

\* ---------------------------------------------------------------- C17
\* the command of folder u ran to its end: u is the only folder staged at its
\* working folder, and the copy staged for it has been used. A command that
\* ran to its end and left a failure outcome exited with a non-zero status.
C17_CommandRanToEnd(u) ==
    /\ IsOriginal(folders[u])
    /\ \A v \in Units \ {u} : folders[v] # folders[u]
    /\ [path |-> working_folder(folders[u]), kind |-> "used", src |-> folders[u]] \in outfs

\* C17: the failure outcome recorded for a folder whose command exited with a
\* non-zero status has an error detail, in the results list and in the report.
C17_NonZeroExitOutcomeCarriesDiagnostics ==
    \A k \in DOMAIN results :
        (~results[k].success /\ C17_CommandRanToEnd(results[k].unit)) =>
            /\ results[k].error # "absent"
            /\ report.written => report.results[k].error # "absent"

\* ---------------------------------------------------------------- C18
\* the folders process_folder has been called for
C18_Started == { u \in Units : status[u] # "queued" }

\* C18: in a sequential run the results list is at every moment the outcomes
\* of the first folders of the resolved list, in that order; at most one
\* command is executing; and a folder is started only when the outcomes of all
\* the folders before it have been appended.
C18_SequentialKeepsDiscoveryOrder ==
    (~args.parallel /\ pc # "main") =>
        /\ Len(results) <= Len(folders)
        /\ \A k \in DOMAIN results :
               /\ results[k].unit = k
               /\ results[k].folder = Basename(folders[k])
        /\ \A u \in C18_Started : u <= Len(results) + 1
        /\ \A c \in invoked : c.unit <= Len(results) + 1
        /\ Cardinality(Running) <= 1

\* the second of three folders is executing after the outcome of the first was
\* appended, and the third has not been started
C18_Witness ==
    /\ ~args.parallel
    /\ Len(folders) = 3
    /\ Len(results) = 1
    /\ status[2] = "running"
    /\ status[3] = "queued"

\* ---------------------------------------------------------------- C19
\* C19: a parallel run whose commands all end and whose workers are scheduled
\* fairly reaches the report with exactly one outcome per submitted folder,
\* with more folders than workers and whatever the folders' outcomes.
C19_ParallelRunReachesReport ==
    (args.parallel /\ pc = "processing")
        ~> (Exited /\ report.written /\ OneOutcomePerUnit(results)
            /\ report.results = results)

\* five folders on four workers, one of them failed: the report is written
C19_Witness ==
    /\ args.parallel
    /\ Len(folders) = 5
    /\ Len(folders) > PoolSize
    /\ \E u \in Units : UnitFailed(u)
    /\ \E u \in Units : UnitSucceeded(u)
    /\ Exited /\ report.written /\ OneOutcomePerUnit(results)

\* ---------------------------------------------------------------- C20
\* every outcome recorded is that of a command: no exception left
\* process_folder, neither into the sequential loop nor into a future
C20_OnlyCommandFailures ==
    /\ ~uncaught
    /\ \A k \in DOMAIN results : results[k].error = "absent"

C20_FailedOutcomes == { k \in DOMAIN results : ~results[k].success }

\* C20: when folders fail through their command only, a run that has ended in
\* parallel mode, or in sequential mode with continue-on-error, has exit status
\* zero and has written the report, whatever the number of failed folders; and
\* a run with a failed folder has a non-zero exit status only when it is
\* sequential, without continue-on-error.
C20_FailuresDoNotChangeExitStatus ==
    (Exited /\ folders # <<>> /\ C20_OnlyCommandFailures) =>
        /\ (args.parallel \/ args.continue_on_error) =>
               /\ exitStatus = ExitSuccess
               /\ report.written
               /\ report.failed = Cardinality(C20_FailedOutcomes)
        /\ (C20_FailedOutcomes # {} /\ exitStatus # ExitSuccess) =>
               (~args.parallel /\ ~args.continue_on_error /\ ~report.written)

\* a sequential run with continue-on-error in which each of several folders
\* failed through its command ends with status zero and a report
C20_Witness ==
    /\ Exited /\ C20_OnlyCommandFailures
    /\ ~args.parallel /\ args.continue_on_error /\ ~args.dry_run
    /\ Len(folders) >= 2
    /\ Len(results) = Len(folders)
    /\ C20_FailedOutcomes = DOMAIN results
    /\ exitStatus = ExitSuccess
    /\ report.written

====
